---------------------------- MODULE Spec2Model ----------------------------
(***************************************************************************)
(* A model of Tileboard.py: the Board built from an extended FEN position, *)
(* the base-26 column labels, algebraic position parsing, and main's       *)
(* layout and drawing pipeline.                                            *)
(*                                                                         *)
(* A Python str is a sequence of one-character strings.  ord() and chr()   *)
(* are the table below (ASCII 32..126, plus the newline); code point 96,   *)
(* which a TLA+ string cannot hold, is written "GRAVE".                    *)
(***************************************************************************)
EXTENDS Integers, Sequences, FiniteSets, TLC

\* ------------------------------------------------------------------------
\* Characters
\* ------------------------------------------------------------------------

Ascii ==
    << " ", "!", "\"", "#", "$", "%", "&", "'", "(", ")", "*", "+", ",", "-", ".", "/",
       "0", "1", "2", "3", "4", "5", "6", "7", "8", "9", ":", ";", "<", "=", ">", "?",
       "@", "A", "B", "C", "D", "E", "F", "G", "H", "I", "J", "K", "L", "M", "N", "O",
       "P", "Q", "R", "S", "T", "U", "V", "W", "X", "Y", "Z", "[", "\\", "]", "^", "_",
       "GRAVE", "a", "b", "c", "d", "e", "f", "g", "h", "i", "j", "k", "l", "m", "n", "o",
       "p", "q", "r", "s", "t", "u", "v", "w", "x", "y", "z", "{", "|", "}", "~" >>

Chars == { Ascii[i] : i \in 1..Len(Ascii) } \cup { "\n" }

OrdTable ==
    [ c \in Chars |->
        IF c = "\n" THEN 10
        ELSE 31 + (CHOOSE i \in 1..Len(Ascii) : Ascii[i] = c) ]

\* ord(c)
ord(c) == OrdTable[c]

\* chr(n), for the code points of the table
chr(n) == IF n = 10 THEN "\n" ELSE Ascii[n - 31]

IsUpperChar(c) == ord(c) >= 65 /\ ord(c) <= 90
IsLowerChar(c) == ord(c) >= 97 /\ ord(c) <= 122
IsDigitChar(c) == ord(c) >= 48 /\ ord(c) <= 57

\* str.lower() and str.upper()
lower(s) == [ i \in 1..Len(s) |-> IF IsUpperChar(s[i]) THEN chr(ord(s[i]) + 32) ELSE s[i] ]
upper(s) == [ i \in 1..Len(s) |-> IF IsLowerChar(s[i]) THEN chr(ord(s[i]) - 32) ELSE s[i] ]

\* All strings over alphabet A of length 0..n
StringsUpTo(A, n) == UNION { [1..k -> A] : k \in 0..n }

Max2(a, b) == IF a >= b THEN a ELSE b

\* ------------------------------------------------------------------------
\* Base 26 conversions
\* ------------------------------------------------------------------------

\* The while loop of to_base26: one call is one iteration.
RECURSIVE to_base26_loop(_, _, _)
to_base26_loop(number, s, first_letter) ==
    LET r0        == number % 26
        remainder == IF ~first_letter /\ number < 25 THEN r0 - 1 ELSE r0
        s1        == <<chr(97 + remainder)>> \o s
        number1   == (number - remainder) \div 26
    IN  IF number1 = 0 THEN s1 ELSE to_base26_loop(number1, s1, FALSE)

to_base26(number) == to_base26_loop(number, <<>>, TRUE)

\* The for loop of from_base26 over string[i..size] (1-based here).
RECURSIVE from_base26_loop(_, _, _)
from_base26_loop(string, i, number) ==
    IF i > Len(string) THEN number
    ELSE from_base26_loop(string, i + 1, number * 26 + (ord(string[i]) - 97))

\* A plausible slip: the first letter is not offset by one.
from_base26_nooffset(string0) ==
    LET string == lower(string0)
    IN  from_base26_loop(string, 2, ord(string[1]) - 97)

from_base26(string0) ==
    LET string == lower(string0)
        size   == Len(string)
        first  == ord(string[1]) - 97
    IN  IF size > 1
        THEN from_base26_loop(string, 2, IF first < 25 THEN first + 1 ELSE first)
        ELSE first

\* ------------------------------------------------------------------------
\* Board representation
\* ------------------------------------------------------------------------

\* The for loop of validate_position from character i on; the value is
\* has_rows when the loop ends.
RECURSIVE validate_position_loop(_, _, _)
validate_position_loop(position, i, has_rows) ==
    IF i > Len(position) THEN has_rows
    ELSE validate_position_loop(position, i + 1,
                                IF ~(position[i] = "/") THEN TRUE ELSE has_rows)

\* A plausible slip: only the empty string is refused.
validate_position_nonempty(position) == Len(position) > 0

\* TRUE when validate_position returns, FALSE when it raises
\* TileboardError('Empty FEN position.').
validate_position(position) == validate_position_loop(position, 1, FALSE)

\* ' ' * n
RECURSIVE spaces(_)
spaces(n) == IF n <= 0 THEN <<>> ELSE <<" ">> \o spaces(n - 1)

\* re.sub('[1-9]', lambda match: ' ' * int(match.group(0)), position)
RECURSIVE expand_position_numbers(_)
expand_position_numbers(position) ==
    IF position = <<>> THEN <<>>
    ELSE LET c == Head(position)
         IN  (IF ord(c) >= 49 /\ ord(c) <= 57 THEN spaces(ord(c) - 48) ELSE <<c>>)
             \o expand_position_numbers(Tail(position))

\* str.split(sep) for a one-character separator: scanning from character i
\* with the segment cur being collected.
RECURSIVE split_loop(_, _, _, _)
split_loop(s, sep, i, cur) ==
    IF i > Len(s) THEN <<cur>>
    ELSE IF s[i] = sep THEN <<cur>> \o split_loop(s, sep, i + 1, <<>>)
    ELSE split_loop(s, sep, i + 1, Append(cur, s[i]))

split(s, sep) == split_loop(s, sep, 1, <<>>)

\* max(map(len, rows))
RECURSIVE max_len(_)
max_len(rows) ==
    IF Len(rows) = 1 THEN Len(rows[1])
    ELSE Max2(Len(rows[1]), max_len(Tail(rows)))

\* row.ljust(width, fillchar)
ljust(row, width, fillchar) ==
    [ i \in 1..Max2(Len(row), width) |-> IF i <= Len(row) THEN row[i] ELSE fillchar ]

\* A plausible slip: the rows are not filled to the board's width.
BoardNoFill(position) ==
    IF ~validate_position(position)
    THEN [ raised |-> "Empty FEN position." ]
    ELSE LET rows0 == split(expand_position_numbers(position), "/")
         IN  [ raised |-> "", rows |-> rows0,
               width |-> max_len(rows0), height |-> Len(rows0) ]

\* Board.__init__: the Board object, or the TileboardError it raises.
Board(position) ==
    IF ~validate_position(position)
    THEN [ raised |-> "Empty FEN position." ]
    ELSE LET rows0  == split(expand_position_numbers(position), "/")
             width  == max_len(rows0)
             height == Len(rows0)
         IN  [ raised |-> "",
               rows   |-> [ r \in 1..height |-> ljust(rows0[r], width, "0") ],
               width  |-> width,
               height |-> height ]

\* No object / no value yet.
None == [ none |-> TRUE ]

\* ------------------------------------------------------------------------
\* State
\* ------------------------------------------------------------------------

VARIABLES
    call,       \* the function under test in the unit specifications:
                \* its name, argument(s), and what it returned or raised
                \* (given: the string the call sequence started from)
    board,      \* the Board object (None before it is built)
    options,    \* main: the parsed command line
    tileset,    \* main: piece -> loaded image
    local,      \* main: the local variables tilesize, image_width, ...
    image,      \* main: the canvas: its size and the draw calls made on it
    file,       \* main: the image saved to options.filepath (None: not written)
    status,     \* main: the exit status
    error,      \* main: the message of the TileboardError caught ("" if none)
    pc          \* main: the statement reached

mainvars == << options, tileset, local, image, file, status, error, pc >>

vars == << call, board, mainvars >>

\* main is not running (the unit specifications).
MainIdle ==
    /\ options = None /\ tileset = None /\ local = None
    /\ image = None /\ file = None /\ status = 0 /\ error = "" /\ pc = "idle"

\* ------------------------------------------------------------------------
\* Unit specification of the base 26 conversions
\* ------------------------------------------------------------------------

\* Largest number converted, and longest letter string decoded.
MaxNumber == 18300
MaxLetters == 2

LowerLetters == { chr(n) : n \in 97..122 }

InitCodec ==
    /\ call \in
         { [ fn |-> "to_base26", number |-> n, string |-> <<>>, given |-> <<>>,
             decoded |-> -1, st |-> "pending" ] : n \in 0..MaxNumber }
         \cup
         { [ fn |-> "from_base26", number |-> -1, string |-> s, given |-> s,
             decoded |-> -1, st |-> "pending" ]
             : s \in StringsUpTo(LowerLetters, MaxLetters) \ { <<>> } }
    /\ board = None
    /\ MainIdle

\* to_base26(number)
CallToBase26 ==
    /\ call.fn = "to_base26" /\ call.st = "pending"
    /\ call' = [ call EXCEPT !.string = to_base26(call.number), !.st = "encoded" ]
    /\ UNCHANGED << board, mainvars >>

\* from_base26(string) on the label just produced
CallFromBase26 ==
    /\ call.fn = "to_base26" /\ call.st = "encoded"
    /\ call' = [ call EXCEPT !.decoded = from_base26(call.string),
                             !.st = "decoded" ]
    /\ UNCHANGED << board, mainvars >>

\* from_base26(string.upper()) on the label just produced
CallFromBase26Upper ==
    /\ call.fn = "to_base26" /\ call.st = "encoded"
    /\ call' = [ call EXCEPT !.string = upper(call.string),
                             !.decoded = from_base26(upper(call.string)),
                             !.st = "decoded" ]
    /\ UNCHANGED << board, mainvars >>

\* from_base26(string) on a given letter string
CallFromBase26OnString ==
    /\ call.fn = "from_base26" /\ call.st = "pending"
    /\ call' = [ call EXCEPT !.decoded = from_base26(call.string),
                             !.st = "decoded" ]
    /\ UNCHANGED << board, mainvars >>

\* to_base26(number) on the number just decoded
CallToBase26Back ==
    /\ call.fn = "from_base26" /\ call.st = "decoded"
    /\ call' = [ call EXCEPT !.number = call.decoded,
                             !.string = to_base26(call.decoded),
                             !.st = "encoded" ]
    /\ UNCHANGED << board, mainvars >>

NextCodec ==
    \/ CallToBase26
    \/ CallFromBase26
    \/ CallFromBase26Upper
    \/ CallFromBase26OnString
    \/ CallToBase26Back

SpecCodec == InitCodec /\ [][NextCodec]_vars

\* C3: decoding the label of a number gives the number back, also when the
\* label is upper-cased before it is decoded.
C3_RoundTrip ==
    (call.fn = "to_base26" /\ call.st = "decoded") => call.decoded = call.number

\* A three-letter label, upper-cased, has been decoded.
C3_Witness ==
    /\ call.fn = "to_base26" /\ call.st = "decoded"
    /\ Len(call.string) = 3 /\ call.string[1] = "A"
    /\ call.number >= 26
    /\ call.decoded = call.number

\* 26^k
RECURSIVE Pow26(_)
Pow26(k) == IF k = 0 THEN 1 ELSE 26 * Pow26(k - 1)

\* The k letters of m written in plain base 26 (a = 0), most significant first.
RECURSIVE Base26Digits(_, _)
Base26Digits(m, k) ==
    IF k = 0 THEN <<>>
    ELSE Append(Base26Digits(m \div 26, k - 1), chr(97 + (m % 26)))

\* The n-th (zero-based) string of the listing of all non-empty lowercase
\* letter strings by length and then alphabetically, searched from length k.
RECURSIVE NthLetterStringFrom(_, _)
NthLetterStringFrom(n, k) ==
    IF n < Pow26(k) THEN Base26Digits(n, k)
    ELSE NthLetterStringFrom(n - Pow26(k), k + 1)

NthLetterString(n) == NthLetterStringFrom(n, 1)

\* C4: to_base26 is the bijective base-26 numeration: to_base26(n) is the
\* n-th letter string of the listing by length and then alphabetically, and
\* to_base26(from_base26(s)) = s for every letter string s of length 1 or 2.
C4_BijectiveNumeration ==
    /\ (call.fn = "to_base26" /\ call.st = "encoded")
           => call.string = NthLetterString(call.number)
    /\ (call.fn = "from_base26" /\ call.st = "encoded")
           => call.string = call.given

\* ------------------------------------------------------------------------
\* Unit specification of Board(position)
\* ------------------------------------------------------------------------

\* Longest FEN position constructed, over the characters below.
MaxFenLen == 4

FenChars == { "/", "0", "1", "3", "9", "k" }

\* "8/8/8/8/8/8/8/8" and "k7/8/8/8/8/8/8/7K"
FenEmptyChessboard ==
    << "8", "/", "8", "/", "8", "/", "8", "/", "8", "/", "8", "/", "8", "/", "8" >>
FenTwoKings ==
    << "k", "7", "/", "8", "/", "8", "/", "8", "/", "8", "/", "8", "/", "8", "/", "7", "K" >>

InitBoard ==
    /\ call \in { [ fn |-> "Board", position |-> p, st |-> "pending" ]
                    : p \in StringsUpTo(FenChars, MaxFenLen)
                            \cup { FenEmptyChessboard, FenTwoKings } }
    /\ board = None
    /\ MainIdle

\* board = Board(position)
CallBoard ==
    /\ call.fn = "Board" /\ call.st = "pending"
    /\ LET b == Board(call.position)
       IN  IF b.raised # ""
           THEN /\ call' = [ call EXCEPT !.st = "raised" ]
                /\ UNCHANGED board
           ELSE /\ call' = [ call EXCEPT !.st = "returned" ]
                /\ board' = b
    /\ UNCHANGED mainvars

NextBoard == CallBoard

SpecBoard == InitBoard /\ [][NextBoard]_vars

\* C1: Board(position) raises exactly when position holds no character
\* other than '/'.
C1_RaisesIffNoRowContent ==
    /\ call.st = "raised"   => \A i \in 1..Len(call.position) : call.position[i] = "/"
    /\ call.st = "returned" => \E i \in 1..Len(call.position) : call.position[i] # "/"

\* A position made only of separators has been refused.
C1_Witness ==
    /\ call.fn = "Board" /\ call.st = "raised"
    /\ Len(call.position) >= 2

\* The indices of the '/' characters of p, and the r-th '/'-separated
\* segment of p (r = 1 is the first).
SlashAt(p) == { i \in 1..Len(p) : p[i] = "/" }

SegmentStart(p, r) ==
    IF r = 1 THEN 1
    ELSE 1 + CHOOSE i \in SlashAt(p) : Cardinality({ j \in SlashAt(p) : j < i }) = r - 2

SegmentEnd(p, r) ==
    IF r = Cardinality(SlashAt(p)) + 1 THEN Len(p)
    ELSE (CHOOSE i \in SlashAt(p) : Cardinality({ j \in SlashAt(p) : j < i }) = r - 1) - 1

Segment(p, r) == SubSeq(p, SegmentStart(p, r), SegmentEnd(p, r))

\* A segment with every digit 1-9 replaced by that many blanks.
RECURSIVE ExpandedSegment(_)
ExpandedSegment(seg) ==
    IF seg = <<>> THEN <<>>
    ELSE LET c == seg[Len(seg)]
             n == CHOOSE d \in 0..9 : chr(48 + d) = c \/ (d = 0 /\ ~IsDigitChar(c))
         IN  ExpandedSegment(SubSeq(seg, 1, Len(seg) - 1))
             \o (IF n = 0 THEN <<c>> ELSE [ i \in 1..n |-> " " ])

\* C2: the Board has one row per '/'-separated segment, each the expanded
\* segment right-padded with '0' to the length of the longest one; every
\* row is exactly width long, and width and height are at least 1.
C2_RowsOfBoard ==
    call.st = "returned" =>
        LET p == call.position
            h == Cardinality(SlashAt(p)) + 1
            w == CHOOSE m \in { Len(ExpandedSegment(Segment(p, r))) : r \in 1..h } :
                   \A r \in 1..h : Len(ExpandedSegment(Segment(p, r))) <= m
        IN  /\ board.height = h
            /\ board.width = w
            /\ Len(board.rows) = h
            /\ w >= 1 /\ h >= 1
            /\ \A r \in 1..h :
                 LET e == ExpandedSegment(Segment(p, r))
                 IN  /\ Len(board.rows[r]) = w
                     /\ SubSeq(board.rows[r], 1, Len(e)) = e
                     /\ \A i \in (Len(e) + 1)..w : board.rows[r][i] = "0"

\* A board with rows of unequal length, a digit run and a hole has been
\* built: a shorter row was padded.
C2_Witness ==
    /\ call.fn = "Board" /\ call.st = "returned"
    /\ call.position = << "3", "/", "0", "k" >>
    /\ board.rows = << << " ", " ", " " >>, << "0", "k", "0" >> >>

\* ------------------------------------------------------------------------
\* Algebraic position parsing
\* ------------------------------------------------------------------------

\* The length of the longest prefix of s from index i whose characters
\* satisfy the class: letters (TRUE) or digits (FALSE).
RECURSIVE run_length(_, _, _)
run_length(s, i, letters) ==
    IF i > Len(s) THEN 0
    ELSE IF (letters /\ (IsUpperChar(s[i]) \/ IsLowerChar(s[i])))
            \/ (~letters /\ IsDigitChar(s[i]))
         THEN 1 + run_length(s, i + 1, letters)
         ELSE 0

\* re.search('^([A-Z]+)([0-9]+)$', position, re.IGNORECASE): the two groups,
\* or None.  '$' matches at the end of the string and also just before a
\* newline that ends the string.  The letters are the ASCII ones: the few
\* non-ASCII characters that re.IGNORECASE adds to [A-Z] are outside the
\* character table.
match_position(position) ==
    LET nl == run_length(position, 1, TRUE)
        nd == run_length(position, nl + 1, FALSE)
        e  == nl + nd
    IN  IF nl >= 1 /\ nd >= 1
           /\ (e = Len(position) \/ (e = Len(position) - 1 /\ position[e + 1] = "\n"))
        THEN [ none |-> FALSE,
               col  |-> SubSeq(position, 1, nl),
               row  |-> SubSeq(position, nl + 1, e) ]
        ELSE [ none |-> TRUE ]

\* int(s) for a string of decimal digits
RECURSIVE int(_)
int(s) ==
    IF s = <<>> THEN 0
    ELSE 10 * int(SubSeq(s, 1, Len(s) - 1)) + (ord(s[Len(s)]) - 48)

\* parse_position(position, board): (x, y), or the TileboardError raised.
parse_position(position, b) ==
    LET match == match_position(position)
    IN  IF match.none
        THEN [ raised |-> "Invalid position" ]
        ELSE LET x == from_base26(match.col)
                 y == b.height - int(match.row)
             IN  IF (x < 0) \/ (x > b.width - 1) \/ (y < 0) \/ (y > b.height - 1)
                 THEN [ raised |-> "Position out of board" ]
                 ELSE [ raised |-> "", x |-> x, y |-> y ]

\* parse_positions(positions, board): the list of the (x, y) of every
\* position, or the TileboardError of the first one that raises.
parse_positions(positions, b) ==
    LET parsed == [ k \in 1..Len(positions) |-> parse_position(positions[k], b) ]
        bad    == { k \in 1..Len(positions) : parsed[k].raised # "" }
    IN  IF bad # {}
        THEN [ raised |-> parsed[CHOOSE k \in bad : \A j \in bad : k <= j].raised,
               cells  |-> << >> ]
        ELSE [ raised |-> "",
               cells  |-> [ k \in 1..Len(positions) |-> << parsed[k].x, parsed[k].y >> ] ]

\* Longest algebraic position parsed, over the characters below.
MaxPosLen == 3

PosChars == { "A", "a", "b", "Z", "0", "1", "2", "\n", "-" }

\* The boards positions are resolved against: "k", "3/0k", "999" (27 columns)
\* and "1/1/1/1/1/1/1/1/1/1" (10 rows).
PosBoards ==
    { Board(<< "k" >>),
      Board(<< "3", "/", "0", "k" >>),
      Board(<< "9", "9", "9" >>),
      Board(<< "1", "/", "1", "/", "1", "/", "1", "/", "1", "/",
               "1", "/", "1", "/", "1", "/", "1", "/", "1" >>) }

InitPos ==
    /\ board \in PosBoards
    /\ MainIdle
    /\ call \in { [ fn |-> "parse_position", position |-> p, st |-> "pending",
                    x |-> -1, y |-> -1 ]
                    : p \in StringsUpTo(PosChars, MaxPosLen) }

\* parse_position(position, board)
CallParsePosition ==
    /\ call.fn = "parse_position" /\ call.st = "pending"
    /\ LET r == parse_position(call.position, board)
       IN  call' = IF r.raised # ""
                   THEN [ call EXCEPT !.st = "raised" ]
                   ELSE [ call EXCEPT !.st = "returned", !.x = r.x, !.y = r.y ]
    /\ UNCHANGED << board, mainvars >>

NextPos == CallParsePosition

SpecPos == InitPos /\ [][NextPos]_vars

\* position is k letters followed by one or more digits.
LettersThenDigits(p, k) ==
    /\ k >= 1 /\ k < Len(p)
    /\ \A i \in 1..k : IsUpperChar(p[i]) \/ IsLowerChar(p[i])
    /\ \A i \in (k + 1)..Len(p) : IsDigitChar(p[i])

\* C5: parse_position raises when position is not letters followed by
\* digits, or when the column or the row is outside the board; otherwise it
\* returns (from_base26(letters), height - number), a cell inside the board.
C5_ParsePosition ==
    call.st \in { "raised", "returned" } =>
        LET p == call.position
        IN  IF \E k \in 1..Len(p) : LettersThenDigits(p, k)
            THEN LET k   == CHOOSE j \in 1..Len(p) : LettersThenDigits(p, j)
                     col == from_base26(SubSeq(p, 1, k))
                     row == board.height - int(SubSeq(p, k + 1, Len(p)))
                 IN  IF col \in 0..(board.width - 1) /\ row \in 0..(board.height - 1)
                     THEN call.st = "returned" /\ call.x = col /\ call.y = row
                     ELSE call.st = "raised"
            ELSE call.st = "raised"

\* ------------------------------------------------------------------------
\* Board traversing
\* ------------------------------------------------------------------------

\* The tiles of the board in row-major order, rows and columns from 0.
all_tiles(b) ==
    [ k \in 1..(b.width * b.height) |->
        LET row == (k - 1) \div b.width
            col == (k - 1) % b.width
        IN  [ tile |-> b.rows[row + 1][col + 1], row |-> row, col |-> col ] ]

\* walk_board_rows: the (tile, row, col) yielded, in order.
walk_board_rows(b, ignore_blanks, ignore_holes) ==
    SelectSeq(all_tiles(b),
              LAMBDA t : ~( (t.tile = " " /\ ignore_blanks)
                            \/ (t.tile = "0" /\ ignore_holes) ))

\* walk_board: the tiles yielded, in order.
walk_board(b, ignore_blanks, ignore_holes) ==
    LET w == walk_board_rows(b, ignore_blanks, ignore_holes)
    IN  [ i \in 1..Len(w) |-> w[i].tile ]

\* ------------------------------------------------------------------------
\* Border text generation
\* ------------------------------------------------------------------------

\* str(n) for n >= 0
RECURSIVE str(_)
str(n) ==
    IF n < 10 THEN << chr(48 + n) >>
    ELSE Append(str(n \div 10), chr(48 + (n % 10)))

generate_border_rows_text(b, uppercase) ==
    [ k \in 1..b.width |->
        IF uppercase THEN upper(to_base26(k - 1)) ELSE lower(to_base26(k - 1)) ]

\* range(board.height, 0, -1)
generate_border_cols_text(b) ==
    [ k \in 1..b.height |-> str(b.height - k + 1) ]

\* ------------------------------------------------------------------------
\* Loading tilesets and fonts
\* ------------------------------------------------------------------------

piece_to_filename(piece) ==
    IF IsUpperChar(piece) THEN << "u" >> \o lower(<< piece >>)
    ELSE IF IsLowerChar(piece) THEN << "l" >> \o lower(<< piece >>)
    ELSE lower(<< piece >>)

\* The pieces load_tileset looks up, in the order it first meets them.
RECURSIVE distinct(_)
distinct(seq) ==
    IF seq = <<>> THEN <<>>
    ELSE LET init == distinct(SubSeq(seq, 1, Len(seq) - 1))
             last == seq[Len(seq)]
         IN  IF \E i \in 1..Len(init) : init[i] = last THEN init ELSE Append(init, last)

\* load_tileset, given what Image.open finds for each piece (found[piece] is
\* an image, with its size and whether it has a fourth band, or "missing"):
\* the images dictionary in insertion order, or the TileboardError raised at
\* the first piece that cannot be loaded.
load_tileset(b, found) ==
    LET pieces == distinct(walk_board(b, TRUE, TRUE))
    IN  IF \E i \in 1..Len(pieces) : found[pieces[i]].missing
        THEN [ raised |-> "Unable to load image", images |-> <<>> ]
        ELSE [ raised |-> "",
               images |-> [ i \in 1..Len(pieces) |->
                             [ piece    |-> pieces[i],
                               filename |-> piece_to_filename(pieces[i]),
                               width    |-> found[pieces[i]].width,
                               height   |-> found[pieces[i]].height,
                               alpha    |-> found[pieces[i]].alpha ] ] ]

\* The for loop of validate_tile_sizes from image i on.  size = 0 stands
\* for last_image_size = None (no image has size 0).
RECURSIVE validate_tile_sizes_loop(_, _, _)
validate_tile_sizes_loop(images, i, last_image_size) ==
    IF i > Len(images) THEN [ raised |-> "", size |-> last_image_size ]
    ELSE LET width  == images[i].width
             height == images[i].height
         IN  IF width # height
             THEN [ raised |-> "Image width and height differ", size |-> 0 ]
             ELSE IF last_image_size # 0
                     /\ ((width # last_image_size) \/ (height # last_image_size))
             THEN [ raised |-> "Image sizes do not match each other", size |-> 0 ]
             ELSE validate_tile_sizes_loop(images, i + 1, width)

\* A plausible slip: only the first image is looked at.
validate_tile_sizes_first(images) ==
    validate_tile_sizes_loop(IF images = << >> THEN << >> ELSE << images[1] >>, 1, 0)

validate_tile_sizes(images) == validate_tile_sizes_loop(images, 1, 0)

\* font.getsize(text)[0]: the font is monospaced (the default is
\* LiberationMono), so a text is as wide as its length times the width of
\* one character at the loaded size.
getsize_width(font, text) == font.charw * Len(text)

\* ------------------------------------------------------------------------
\* Calculating sizes
\* ------------------------------------------------------------------------

\* A plausible slip: no minimum of 1.
calculate_outline_size_nomin(tilesize) == tilesize \div 100

calculate_outline_size(tilesize) == Max2(tilesize \div 100, 1)

calculate_border_font_size(tilesize) == Max2(tilesize \div 3, 12)

calculate_border_size(b, tilesize, font) ==
    LET border_size        == tilesize \div 2
        max_col_text       == to_base26(b.width)
        max_row_text       == str(b.height)
        max_col_text_width == getsize_width(font, max_col_text) + 10
        max_row_text_width == getsize_width(font, max_row_text) + 10
    IN  Max2(border_size, Max2(max_col_text_width, max_row_text_width))

\* ------------------------------------------------------------------------
\* Drawing helpers.  A draw call on the image is recorded as
\* [layer, op, xy, arg]: draw.rectangle(xy, fill = arg),
\* draw.text(xy, arg) or image.paste(tileset[arg], xy, mask).
\* ------------------------------------------------------------------------

rectangle(layer, x0, y0, x1, y1, fill) ==
    [ layer |-> layer, op |-> "rectangle", xy |-> << x0, y0, x1, y1 >>, arg |-> fill ]

\* A plausible slip: the frame is drawn one pixel thicker than asked.
draw_rectangle_outline_thick(layer, x1, y1, x2, y2, width, color) ==
    << rectangle(layer, x1, y1, x1 + width + 1, y2, color),
       rectangle(layer, x1, y1, x2, y1 + width + 1, color),
       rectangle(layer, x2, y1, x2 - width - 1, y2, color),
       rectangle(layer, x1, y2, x2, y2 - width - 1, color) >>

\* draw_rectangle_outline: left, top, right and bottom band.
draw_rectangle_outline(layer, x1, y1, x2, y2, width, color) ==
    << rectangle(layer, x1, y1, x1 + width, y2, color),
       rectangle(layer, x1, y1, x2, y1 + width, color),
       rectangle(layer, x2, y1, x2 - width, y2, color),
       rectangle(layer, x1, y2, x2, y2 - width, color) >>

draw_horizontal_words(layer, x, y, words, spacing, font, font_size, font_color) ==
    [ k \in 1..Len(words) |->
        LET index     == k - 1
            fontwidth == getsize_width(font, words[k])
        IN  [ layer |-> layer, op |-> "text",
              xy    |-> << x + (spacing * index) - (fontwidth \div 2), y >>,
              arg   |-> words[k] ] ]

draw_vertical_words(layer, x, y, words, spacing, font, font_size, font_color) ==
    [ k \in 1..Len(words) |->
        LET index     == k - 1
            fontwidth == getsize_width(font, words[k])
        IN  [ layer |-> layer, op |-> "text",
              xy    |-> << x - (fontwidth \div 2),
                           y + (spacing * index) - (font_size \div 2) >>,
              arg   |-> words[k] ] ]

\* The rectangle of the tile at (row, col) of a board drawn from (x, y).
tile_rectangle(layer, x, y, row, col, tilesize, color) ==
    LET x1 == x + (col * tilesize)
        y1 == y + (row * tilesize)
    IN  rectangle(layer, x1, y1, x1 + tilesize - 1, y1 + tilesize - 1, color)

draw_checkerboard_holes(x, y, b, tilesize, color) ==
    LET w     == walk_board_rows(b, TRUE, FALSE)
        holes == SelectSeq(w, LAMBDA t : t.tile = "0")
    IN  [ k \in 1..Len(holes) |->
            tile_rectangle("holes", x, y, holes[k].row, holes[k].col, tilesize, color) ]

\* A plausible slip: the colors start with color2.
draw_checkerboard_pattern_swapped(x, y, b, tilesize, color1, color2) ==
    LET w == walk_board_rows(b, FALSE, TRUE)
    IN  [ k \in 1..Len(w) |->
            tile_rectangle("pattern", x, y, w[k].row, w[k].col, tilesize,
                           IF (w[k].col % 2) = (w[k].row % 2) THEN color2 ELSE color1) ]

draw_checkerboard_pattern(x, y, b, tilesize, color1, color2) ==
    LET w == walk_board_rows(b, FALSE, TRUE)
    IN  [ k \in 1..Len(w) |->
            tile_rectangle("pattern", x, y, w[k].row, w[k].col, tilesize,
                           IF (w[k].col % 2) = (w[k].row % 2) THEN color1 ELSE color2) ]

\* draw_pieces: a paste for every piece cell.  mask = tile.split()[3] is the
\* fourth band of the piece image; on an image with fewer bands it is an
\* IndexError, raised after the pastes of the cells walked before.
draw_pieces(x, y, b, tilesize, images) ==
    LET w       == walk_board_rows(b, TRUE, TRUE)
        tile(k) == images[CHOOSE i \in 1..Len(images) : images[i].piece = w[k].tile]
        bad     == { k \in 1..Len(w) : ~tile(k).alpha }
        pasted  == IF bad = {} THEN Len(w)
                   ELSE (CHOOSE k \in bad : \A j \in bad : k <= j) - 1
    IN  [ raised |-> bad # {},
          ops    |-> [ k \in 1..pasted |->
                        [ layer |-> "pieces", op |-> "paste",
                          xy    |-> << x + (w[k].col * tilesize),
                                       y + (w[k].row * tilesize) >>,
                          arg   |-> w[k].tile ] ] ]

\* ------------------------------------------------------------------------
\* main
\* ------------------------------------------------------------------------

\* Largest side of a piece image found in the tileset folder.
MaxSpriteSide == 2

\* What Image.open can find for a piece: no loadable file, or an image of
\* some size, with (RGBA) or without (RGB) a fourth band.
SpriteFiles ==
    { [ missing |-> TRUE, width |-> 0, height |-> 0, alpha |-> FALSE ] }
    \cup { [ missing |-> FALSE, width |-> w, height |-> h, alpha |-> a ]
             : w \in 1..MaxSpriteSide, h \in 1..MaxSpriteSide, a \in BOOLEAN }

\* What ImageFont.truetype can find: no loadable file, or a font with the
\* width of its characters at the size asked for.
FontFiles ==
    { [ missing |-> TRUE, charw |-> 0 ] }
    \cup { [ missing |-> FALSE, charw |-> w ] : w \in { 1, 2 } }

\* The FEN positions main is run on:
\*   ""  "//"  "kK/01"  "3/0k"  "01/10"  "997"  "998"  "1/1/1/1/1/1/1/1/1/1"
FenEmpty  == << >>
FenSlashes == << "/", "/" >>
FenSmall  == << "k", "K", "/", "0", "1" >>
FenRagged == << "3", "/", "0", "k" >>
FenHoles  == << "0", "1", "/", "1", "0" >>
FenWide25 == << "9", "9", "7" >>
FenWide26 == << "9", "9", "8" >>
FenTall10 == << "1", "/", "1", "/", "1", "/", "1", "/", "1", "/",
                "1", "/", "1", "/", "1", "/", "1", "/", "1" >>

MainPositions ==
    { FenEmpty, FenSlashes, FenSmall, FenRagged, FenHoles,
      FenWide25, FenWide26, FenTall10 }

\* The values of --tileset-size main is run with (42 is the default).
MainTileSizes == { 1, 42, 200 }

\* The values of --crosses, --crosses-disable, --dots and --dots-disable
\* when none of them is given.
NoMarkers ==
    [ crosses |-> << >>, crosses_disable |-> FALSE,
      dots    |-> << >>, dots_disable    |-> FALSE ]

\* The namespace parse_args returns, the colors at their defaults.
OptionsWith(positions, tilesizes, flags, markers) ==
    { [ position                   |-> p,
        outer_outline_color        |-> "#000000",
        outer_outline_disable      |-> f[1],
        border_color               |-> "#FFFFFF",
        border_disable             |-> f[2],
        border_uppercase           |-> f[3],
        border_font_color          |-> "#000000",
        inner_outline_color        |-> "#000000",
        inner_outline_disable      |-> f[4],
        checkerboard_color0        |-> "#EEEEEE",
        checkerboard_color1        |-> "#FFCE9E",
        checkerboard_color2        |-> "#D18B47",
        checkerboard_disable       |-> f[5],
        checkerboard_holes_disable |-> f[6],
        crosses                    |-> m.crosses,
        crosses_color              |-> "#000000",
        crosses_disable            |-> m.crosses_disable,
        dots                       |-> m.dots,
        dots_color                 |-> "#000000",
        dots_disable               |-> m.dots_disable,
        tileset_size               |-> ts,
        tileset_disable            |-> f[7] ]
      : p \in positions, ts \in tilesizes, f \in flags, m \in markers }

\* The same without marker options on the command line.
Options(positions, tilesizes, flags) ==
    OptionsWith(positions, tilesizes, flags, { NoMarkers })

\* main's local variables before they are bound.
Unbound ==
    [ tilesize |-> 0, image_width |-> 0, image_height |-> 0,
      outer_outline_size |-> 0, border_size |-> 0, inner_outline_size |-> 0,
      border_font_size |-> 0, border_font |-> [ missing |-> TRUE, charw |-> 0 ] ]

MainStart(opts) ==
    /\ call = None /\ board = None
    /\ options \in opts
    /\ tileset = <<>> /\ local = Unbound /\ image = None /\ file = None
    /\ status = 0 /\ error = "" /\ pc = "load_board"

Init == MainStart(Options(MainPositions, MainTileSizes, [1..7 -> BOOLEAN]))

\* A plausible slip: the pieces are pasted before the checkerboard is drawn.
StatementAfterPiecesFirst(stmt) ==
    CASE stmt = "load_board"    -> "load_tileset"
      [] stmt = "load_tileset"  -> "tile_size"
      [] stmt = "tile_size"     -> "layout"
      [] stmt = "layout"        -> "outer_outline"
      [] stmt = "outer_outline" -> "border"
      [] stmt = "border"        -> "inner_outline"
      [] stmt = "inner_outline" -> "pieces"
      [] stmt = "pieces"        -> "holes"
      [] stmt = "holes"         -> "pattern"
      [] stmt = "pattern"       -> "save"
      [] stmt = "save"          -> "exit"

\* The order of the statements of main's try block.
StatementAfter(stmt) ==
    CASE stmt = "load_board"    -> "load_tileset"
      [] stmt = "load_tileset"  -> "tile_size"
      [] stmt = "tile_size"     -> "layout"
      [] stmt = "layout"        -> "outer_outline"
      [] stmt = "outer_outline" -> "border"
      [] stmt = "border"        -> "inner_outline"
      [] stmt = "inner_outline" -> "holes"
      [] stmt = "holes"         -> "pattern"
      [] stmt = "pattern"       -> "pieces"
      [] stmt = "pieces"        -> "save"
      [] stmt = "save"          -> "exit"

\* A plausible slip: the handler prints the message and leaves status alone.
Raised_status0(message) ==
    /\ error' = message
    /\ status' = status
    /\ pc' = "exit"

\* except TileboardError as err: errln(...); status = 1, then sys.exit(status)
Raised(message) ==
    /\ error' = message
    /\ status' = 1
    /\ pc' = "exit"

\* An exception that is not a TileboardError leaves main uncaught: the
\* interpreter prints the traceback and exits with status 1.
Crashed ==
    /\ status' = 1
    /\ pc' = "exit"
    /\ UNCHANGED error

\* The statement returned: on to the next one.
Continue ==
    /\ pc' = StatementAfter(pc)
    /\ UNCHANGED << error, status >>

\* The image with the draw calls ops made on it.
Drawn(ops) == [ image EXCEPT !.ops = @ \o ops ]

\* The offset of the board area, as every board drawing call computes it.
BoardOffset == local.outer_outline_size + local.border_size + local.inner_outline_size

\* board = Board(options.position)
LoadBoard ==
    /\ pc = "load_board"
    /\ LET b == Board(options.position)
       IN  IF b.raised # ""
           THEN Raised(b.raised) /\ UNCHANGED board
           ELSE Continue /\ board' = b
    /\ UNCHANGED << call, options, tileset, local, image, file >>

\* tileset = load_tileset(board, options.tileset_folder)
LoadTileset ==
    /\ pc = "load_tileset"
    /\ \E found \in [ { t.tile : t \in { walk_board_rows(board, TRUE, TRUE)[i]
                              : i \in 1..Len(walk_board_rows(board, TRUE, TRUE)) } }
                      -> SpriteFiles ] :
         LET r == load_tileset(board, found)
         IN  IF r.raised # ""
             THEN Raised(r.raised) /\ UNCHANGED tileset
             ELSE Continue /\ tileset' = r.images
    /\ UNCHANGED << call, board, options, local, image, file >>

\* tilesize = validate_tile_sizes(tileset.values()), or options.tileset_size
DetermineTileSize ==
    /\ pc = "tile_size"
    /\ LET r == validate_tile_sizes(tileset)
       IN  IF r.raised # ""
           THEN Raised(r.raised) /\ UNCHANGED local
           ELSE /\ Continue
                /\ local' = [ local EXCEPT !.tilesize =
                                IF r.size = 0 THEN options.tileset_size ELSE r.size ]
    /\ UNCHANGED << call, board, options, tileset, image, file >>

\* Whether Image.new('RGBA', (width, height)) returns an image (TRUE) or
\* raises ValueError (FALSE): a negative side is always refused, a side of 0
\* is refused by the Pillow versions that ask for sides > 0 and accepted by
\* those that ask for sides >= 0.
Image_new(width, height) ==
    IF width < 0 \/ height < 0 THEN { FALSE }
    ELSE IF width = 0 \/ height = 0 THEN { TRUE, FALSE }
    ELSE { TRUE }

\* The sizes: image_width and image_height, the outlines and the border
\* (with the border font loaded), then image = Image.new(...)
ComputeLayout ==
    /\ pc = "layout"
    /\ LET tilesize == local.tilesize
           outer_outline_size ==
               IF ~options.outer_outline_disable
               THEN calculate_outline_size(tilesize) ELSE 0
           inner_outline_size ==
               IF ~options.inner_outline_disable
               THEN calculate_outline_size(tilesize) ELSE 0
           border_font_size ==
               IF ~options.border_disable
               THEN calculate_border_font_size(tilesize) ELSE 0
       IN  \E font \in IF options.border_disable
                       THEN { Unbound.border_font } ELSE FontFiles :
             IF ~options.border_disable /\ font.missing
             THEN /\ Raised("Unable to load font")
                  /\ local' = [ local EXCEPT
                        !.image_width  = (tilesize * board.width) + (outer_outline_size * 2),
                        !.image_height = (tilesize * board.height) + (outer_outline_size * 2),
                        !.outer_outline_size = outer_outline_size,
                        !.border_font_size   = border_font_size ]
                  /\ UNCHANGED image
             ELSE LET border_size ==
                          IF ~options.border_disable
                          THEN calculate_border_size(board, tilesize, font) ELSE 0
                      image_width ==
                          (tilesize * board.width) + (outer_outline_size * 2)
                          + (border_size * 2) + (inner_outline_size * 2)
                      image_height ==
                          (tilesize * board.height) + (outer_outline_size * 2)
                          + (border_size * 2) + (inner_outline_size * 2)
                  IN  /\ local' = [ local EXCEPT
                            !.image_width  = image_width,
                            !.image_height = image_height,
                            !.outer_outline_size = outer_outline_size,
                            !.border_size        = border_size,
                            !.inner_outline_size = inner_outline_size,
                            !.border_font_size   = border_font_size,
                            !.border_font        = font ]
                      /\ \E created \in Image_new(image_width, image_height) :
                            IF created
                            THEN /\ Continue
                                 /\ image' = [ width |-> image_width,
                                               height |-> image_height,
                                               ops |-> << >> ]
                            ELSE Crashed /\ UNCHANGED image
    /\ UNCHANGED << call, board, options, tileset, file >>

\* outer outline
DrawOuterOutline ==
    /\ pc = "outer_outline"
    /\ image' =
         IF ~options.outer_outline_disable
         THEN Drawn(draw_rectangle_outline("outer_outline",
                        0, 0, image.width - 1, image.height - 1,
                        local.outer_outline_size - 1, options.outer_outline_color))
         ELSE image
    /\ Continue
    /\ UNCHANGED << call, board, options, tileset, local, file >>

\* border: the background, then the text of the top row, the bottom row,
\* the left column and the right column
DrawBorder ==
    /\ pc = "border"
    /\ image' =
         IF ~options.border_disable
         THEN LET outer_outline_size == local.outer_outline_size
                  border_size        == local.border_size
                  inner_outline_size == local.inner_outline_size
                  tilesize           == local.tilesize
                  border_font_size   == local.border_font_size
                  top_row_x == outer_outline_size + border_size + inner_outline_size
                               + (tilesize \div 2)
                  top_row_y == outer_outline_size + (border_size \div 2)
                               - (border_font_size \div 2)
                  bottom_row_x == outer_outline_size + border_size + inner_outline_size
                                  + (tilesize \div 2)
                  bottom_row_y == outer_outline_size + border_size + inner_outline_size
                                  + (tilesize * board.height) + inner_outline_size
                                  + (border_size \div 2) - (border_font_size \div 2)
                  left_col_x == outer_outline_size + (border_size \div 2)
                  left_col_y == outer_outline_size + border_size + inner_outline_size
                                + (tilesize \div 2)
                  right_col_x == outer_outline_size + border_size + inner_outline_size
                                 + (tilesize * board.width) + inner_outline_size
                                 + (border_size \div 2)
                  right_col_y == outer_outline_size + border_size + inner_outline_size
                                 + (tilesize \div 2)
              IN  Drawn(
                    draw_rectangle_outline("border",
                        outer_outline_size, outer_outline_size,
                        image.width - outer_outline_size - 1,
                        image.height - outer_outline_size - 1,
                        border_size - 1, options.border_color)
                    \o draw_horizontal_words("border_text", top_row_x, top_row_y,
                        generate_border_rows_text(board, options.border_uppercase),
                        tilesize, local.border_font, border_font_size,
                        options.border_font_color)
                    \o draw_horizontal_words("border_text", bottom_row_x, bottom_row_y,
                        generate_border_rows_text(board, options.border_uppercase),
                        tilesize, local.border_font, border_font_size,
                        options.border_font_color)
                    \o draw_vertical_words("border_text", left_col_x, left_col_y,
                        generate_border_cols_text(board),
                        tilesize, local.border_font, border_font_size,
                        options.border_font_color)
                    \o draw_vertical_words("border_text", right_col_x, right_col_y,
                        generate_border_cols_text(board),
                        tilesize, local.border_font, border_font_size,
                        options.border_font_color))
         ELSE image
    /\ Continue
    /\ UNCHANGED << call, board, options, tileset, local, file >>

\* inner outline
DrawInnerOutline ==
    /\ pc = "inner_outline"
    /\ image' =
         IF ~options.inner_outline_disable
         THEN Drawn(draw_rectangle_outline("inner_outline",
                        local.outer_outline_size + local.border_size,
                        local.outer_outline_size + local.border_size,
                        image.width - local.outer_outline_size - local.border_size - 1,
                        image.height - local.outer_outline_size - local.border_size - 1,
                        local.inner_outline_size - 1, options.inner_outline_color))
         ELSE image
    /\ Continue
    /\ UNCHANGED << call, board, options, tileset, local, file >>

\* checkerboard holes
DrawCheckerboardHoles ==
    /\ pc = "holes"
    /\ image' =
         IF ~options.checkerboard_disable /\ ~options.checkerboard_holes_disable
         THEN Drawn(draw_checkerboard_holes(BoardOffset, BoardOffset, board,
                        local.tilesize, options.checkerboard_color0))
         ELSE image
    /\ Continue
    /\ UNCHANGED << call, board, options, tileset, local, file >>

\* checkerboard pattern
DrawCheckerboardPattern ==
    /\ pc = "pattern"
    /\ image' =
         IF ~options.checkerboard_disable
         THEN Drawn(draw_checkerboard_pattern(BoardOffset, BoardOffset, board,
                        local.tilesize, options.checkerboard_color1,
                        options.checkerboard_color2))
         ELSE image
    /\ Continue
    /\ UNCHANGED << call, board, options, tileset, local, file >>

\* tileset
DrawPieces ==
    /\ pc = "pieces"
    /\ IF ~options.tileset_disable
       THEN LET r == draw_pieces(BoardOffset, BoardOffset, board, local.tilesize, tileset)
            IN  /\ image' = Drawn(r.ops)
                /\ IF r.raised THEN Crashed ELSE Continue
       ELSE Continue /\ UNCHANGED image
    /\ UNCHANGED << call, board, options, tileset, local, file >>

\* image.save(options.filepath).  Whether an image with a side of 0 can be
\* encoded depends on the Pillow version: it is written, or the encoder
\* raises and nothing is written.
Save ==
    /\ pc = "save"
    /\ \E written \in IF image.width = 0 \/ image.height = 0
                       THEN { TRUE, FALSE } ELSE { TRUE } :
         IF written
         THEN Continue /\ file' = image
         ELSE Crashed /\ UNCHANGED file
    /\ UNCHANGED << call, board, options, tileset, local, image >>

Next ==
    \/ LoadBoard
    \/ LoadTileset
    \/ DetermineTileSize
    \/ ComputeLayout
    \/ DrawOuterOutline
    \/ DrawBorder
    \/ DrawInnerOutline
    \/ DrawCheckerboardHoles
    \/ DrawCheckerboardPattern
    \/ DrawPieces
    \/ Save

Spec == Init /\ [][Next]_vars

\* ------------------------------------------------------------------------
\* Layout (C6, C7)
\* ------------------------------------------------------------------------

\* The draw calls made so far, as a set.
Ops == { image.ops[k] : k \in 1..Len(image.ops) }

\* C6: the canvas is tilesize*width + 2*(o+b+i) wide and tilesize*height +
\* 2*(o+b+i) high, o and i being max(tilesize // 100, 1) for an enabled
\* outline and 0 for a disabled one, b the border thickness or 0; the board
\* area starts at (o+b+i, o+b+i), so that the margins on both sides are equal.
C6_CanvasAndOffsets ==
    (image # None /\ local.tilesize >= 1) =>
        LET ts  == local.tilesize
            o   == IF options.outer_outline_disable THEN 0
                   ELSE (IF ts \div 100 > 1 THEN ts \div 100 ELSE 1)
            i   == IF options.inner_outline_disable THEN 0
                   ELSE (IF ts \div 100 > 1 THEN ts \div 100 ELSE 1)
            b   == IF options.border_disable THEN 0 ELSE local.border_size
            off == o + b + i
        IN  /\ local.outer_outline_size = o
            /\ local.inner_outline_size = i
            /\ options.border_disable => local.border_size = 0
            /\ image.width  = (ts * board.width)  + (2 * (o + b + i))
            /\ image.height = (ts * board.height) + (2 * (o + b + i))
            \* every tile drawn sits at off + col*ts, off + row*ts
            /\ \A op \in Ops :
                 op.layer \in { "holes", "pattern", "pieces" } =>
                   \E row \in 0..(board.height - 1), col \in 0..(board.width - 1) :
                     /\ op.xy[1] = off + (col * ts)
                     /\ op.xy[2] = off + (row * ts)
            \* the first tile drawn on the first row starts the board area
            /\ \A op \in Ops :
                 op.layer = "pattern" => (op.xy[1] >= off /\ op.xy[2] >= off)
            \* equal margins left/right and above/below
            /\ image.width  - (off + (ts * board.width))  = off
            /\ image.height - (off + (ts * board.height)) = off

\* A render at tile size 200 (outlines 2 pixels thick) with the outer
\* outline and the border but no inner outline has drawn its checkerboard.
C6_Witness ==
    /\ file # None
    /\ local.tilesize = 200
    /\ ~options.outer_outline_disable /\ ~options.border_disable
    /\ options.inner_outline_disable
    /\ local.outer_outline_size = 2 /\ local.inner_outline_size = 0
    /\ \E op \in Ops : op.layer = "pattern" /\ op.xy[1] = 2 + local.border_size

\* The widest of a list of texts, as the font measures them.
RECURSIVE MaxTextWidth(_, _)
MaxTextWidth(font, words) ==
    IF words = << >> THEN 0
    ELSE Max2(getsize_width(font, Head(words)), MaxTextWidth(font, Tail(words)))

\* C7: with the border enabled, the border is max(tilesize // 2, W(longest
\* column label drawn) + 10, W(longest row label drawn) + 10) thick.
C7_BorderFitsDrawnLabels ==
    (image # None /\ ~options.border_disable) =>
        local.border_size =
            Max2(local.tilesize \div 2,
                 Max2(MaxTextWidth(local.border_font,
                          generate_border_rows_text(board, options.border_uppercase)) + 10,
                      MaxTextWidth(local.border_font,
                          generate_border_cols_text(board)) + 10))

\* ------------------------------------------------------------------------
\* Checkerboard (C9)
\* ------------------------------------------------------------------------

Lo(a, b) == IF a <= b THEN a ELSE b
Hi(a, b) == IF a <= b THEN b ELSE a

\* Two rectangles (corners in either order, both corners included) share a
\* pixel.
Overlap(r, q) ==
    /\ Lo(r[1], r[3]) <= Hi(q[1], q[3]) /\ Lo(q[1], q[3]) <= Hi(r[1], r[3])
    /\ Lo(r[2], r[4]) <= Hi(q[2], q[4]) /\ Lo(q[2], q[4]) <= Hi(r[2], r[4])

\* The pixels of the cell (row, col), as a rectangle.
CellBox(row, col) ==
    LET off == local.outer_outline_size + local.border_size + local.inner_outline_size
        ts  == local.tilesize
    IN  << off + (col * ts), off + (row * ts),
           off + (col * ts) + ts - 1, off + (row * ts) + ts - 1 >>

\* The cell (row, col) is painted with color: a rectangle of that color was
\* drawn on exactly its pixels, and no rectangle drawn later touches them.
PaintedWith(row, col, color) ==
    \E k \in 1..Len(image.ops) :
       /\ image.ops[k].op = "rectangle"
       /\ image.ops[k].xy = CellBox(row, col)
       /\ image.ops[k].arg = color
       /\ \A j \in (k + 1)..Len(image.ops) :
            image.ops[j].op = "rectangle" => ~Overlap(image.ops[j].xy, CellBox(row, col))

\* Some rectangle of the layer touches the cell (row, col).
TouchedBy(row, col, layer) ==
    \E k \in 1..Len(image.ops) :
       /\ image.ops[k].op = "rectangle" /\ image.ops[k].layer = layer
       /\ Overlap(image.ops[k].xy, CellBox(row, col))

Rows == 0..(board.height - 1)
Cols == 0..(board.width - 1)
Tile(row, col) == board.rows[row + 1][col + 1]

\* With the checkerboard enabled, every non-hole cell has the first color
\* when row + col is even and the second when odd, and no hole is touched
\* by the pattern.
PatternByParity ==
    ~options.checkerboard_disable =>
        \A row \in Rows, col \in Cols :
           IF Tile(row, col) # "0"
           THEN PaintedWith(row, col,
                    IF (row + col) % 2 = 0 THEN options.checkerboard_color1
                    ELSE options.checkerboard_color2)
           ELSE ~TouchedBy(row, col, "pattern")

\* Every '0' cell, and no other cell, has the hole color.
HolesFilled ==
    \A row \in Rows, col \in Cols :
       IF Tile(row, col) = "0"
       THEN PaintedWith(row, col, options.checkerboard_color0)
       ELSE ~TouchedBy(row, col, "holes")

\* C9 as claimed: the pattern by parity when the checkerboard is enabled,
\* and the holes filled whenever hole fill is not disabled.
C9_AsClaimed ==
    file # None =>
        /\ PatternByParity
        /\ ~options.checkerboard_holes_disable => HolesFilled

\* C9 as the code has it: the holes are filled when hole fill is not
\* disabled and the checkerboard is enabled.
C9_Checkerboard ==
    file # None =>
        /\ PatternByParity
        /\ (~options.checkerboard_holes_disable /\ ~options.checkerboard_disable)
               => HolesFilled

\* A board with holes, blanks and pieces was rendered with the checkerboard
\* and the hole fill: the hole at (1, 0) has the hole color, the cells (0, 0)
\* and (1, 1) the first color and (0, 1) the second.
C9_Witness ==
    /\ file # None
    /\ options.position = FenSmall
    /\ ~options.checkerboard_disable /\ ~options.checkerboard_holes_disable
    /\ PaintedWith(1, 0, options.checkerboard_color0)
    /\ PaintedWith(0, 0, options.checkerboard_color1)
    /\ PaintedWith(0, 1, options.checkerboard_color2)
    /\ PaintedWith(1, 1, options.checkerboard_color1)

\* ------------------------------------------------------------------------
\* Drawing order (C10)
\* ------------------------------------------------------------------------

LayerRank(layer) ==
    CASE layer = "outer_outline" -> 1
      [] layer = "border"        -> 2
      [] layer = "border_text"   -> 3
      [] layer = "inner_outline" -> 4
      [] layer = "holes"         -> 5
      [] layer = "pattern"       -> 6
      [] layer = "pieces"        -> 7

HasLayer(img, layer) == \E k \in 1..Len(img.ops) : img.ops[k].layer = layer

HasTile(ignore_blanks, ignore_holes) ==
    \E row \in Rows, col \in Cols :
       /\ ~(Tile(row, col) = " " /\ ignore_blanks)
       /\ ~(Tile(row, col) = "0" /\ ignore_holes)

\* C10: the layers are drawn in the order outer outline, border background,
\* border labels, inner outline, hole fill, checkerboard pattern, pieces;
\* the file is written only after every enabled layer has been drawn, and
\* nothing is drawn after the write: the file holds the finished image.
C10_DrawingOrder ==
    /\ image # None =>
         \A k \in 1..(Len(image.ops) - 1) :
            LayerRank(image.ops[k].layer) <= LayerRank(image.ops[k + 1].layer)
    /\ file # None =>
         /\ image = file
         /\ ~options.outer_outline_disable => HasLayer(file, "outer_outline")
         /\ ~options.border_disable =>
               HasLayer(file, "border") /\ HasLayer(file, "border_text")
         /\ ~options.inner_outline_disable => HasLayer(file, "inner_outline")
         /\ (~options.checkerboard_disable /\ ~options.checkerboard_holes_disable
               /\ \E row \in Rows, col \in Cols : Tile(row, col) = "0")
               => HasLayer(file, "holes")
         /\ (~options.checkerboard_disable /\ HasTile(FALSE, TRUE))
               => HasLayer(file, "pattern")
         /\ (~options.tileset_disable /\ HasTile(TRUE, TRUE))
               => HasLayer(file, "pieces")

\* A render with every layer enabled on a board with holes and pieces was
\* written: all seven layers are in the file.
C10_Witness ==
    /\ file # None /\ pc = "exit"
    /\ \A layer \in { "outer_outline", "border", "border_text", "inner_outline",
                      "holes", "pattern", "pieces" } : HasLayer(file, layer)

\* ------------------------------------------------------------------------
\* Frames (C8): main on small boards, pixel by pixel
\* ------------------------------------------------------------------------

FramePositions == { FenSmall, FenRagged, FenHoles }
FrameTileSizes == { 1, 2 }

\* Every subset of the outer outline, the border and the inner outline;
\* lowercase labels, checkerboard, hole fill and pieces enabled.
FrameFlags == { f \in [1..7 -> BOOLEAN] : ~f[3] /\ ~f[5] /\ ~f[6] /\ ~f[7] }

InitFrames == MainStart(Options(FramePositions, FrameTileSizes, FrameFlags))

SpecFrames == InitFrames /\ [][Next]_vars

\* The pixels draw.rectangle fills: every pixel between the two corners,
\* both included.
Pixels(r) ==
    { << x, y >> : x \in Lo(r[1], r[3])..Hi(r[1], r[3]),
                   y \in Lo(r[2], r[4])..Hi(r[2], r[4]) }

\* The pixels filled by the rectangles of a layer.
LayerPixels(layer) ==
    UNION { Pixels(op.xy) : op \in { o \in Ops : o.op = "rectangle" /\ o.layer = layer } }

Canvas == (0..(image.width - 1)) \X (0..(image.height - 1))

\* The pixels of the canvas within thickness t of the edge of the bounding
\* box that is inset by d from the canvas edge on all four sides.
FramePixels(d, t) ==
    { p \in Canvas :
        /\ p[1] >= d /\ p[1] <= image.width - 1 - d
        /\ p[2] >= d /\ p[2] <= image.height - 1 - d
        /\ \/ p[1] - d < t
           \/ (image.width - 1 - d) - p[1] < t
           \/ p[2] - d < t
           \/ (image.height - 1 - d) - p[2] < t }

BoardAreaPixels ==
    LET off == local.outer_outline_size + local.border_size + local.inner_outline_size
    IN  { p \in Canvas :
            /\ p[1] >= off /\ p[1] < off + (local.tilesize * board.width)
            /\ p[2] >= off /\ p[2] < off + (local.tilesize * board.height) }

\* C8: once the frames are drawn, each of the outer outline, the border and
\* the inner outline covers exactly the pixels within its thickness of its
\* bounding box edge (none when disabled); the frames and the board area
\* are pairwise disjoint and together cover the canvas.
C8_FramesPartitionCanvas ==
    (image # None /\ local.tilesize >= 1
       /\ pc \in { "holes", "pattern", "pieces", "save", "exit" }) =>
        LET o     == local.outer_outline_size
            b     == local.border_size
            outer == LayerPixels("outer_outline")
            bord  == LayerPixels("border")
            inner == LayerPixels("inner_outline")
            area  == BoardAreaPixels
        IN  /\ options.outer_outline_disable => outer = {}
            /\ options.border_disable        => bord = {}
            /\ options.inner_outline_disable => inner = {}
            /\ outer = FramePixels(0, local.outer_outline_size)
            /\ bord  = FramePixels(o, local.border_size)
            /\ inner = FramePixels(o + b, local.inner_outline_size)
            /\ outer \cap bord = {}  /\ outer \cap inner = {} /\ outer \cap area = {}
            /\ bord \cap inner = {}  /\ bord \cap area = {}
            /\ inner \cap area = {}
            /\ outer \cup bord \cup inner \cup area = Canvas

\* All three frames were drawn around a board of 2-pixel tiles: the outer
\* outline holds the canvas corner, the border the pixel next to it on the
\* diagonal, and the inner outline the pixel just before the board area.
C8_Witness ==
    /\ file # None
    /\ local.tilesize = 2
    /\ ~options.outer_outline_disable /\ ~options.border_disable
    /\ ~options.inner_outline_disable
    /\ << 0, 0 >> \in LayerPixels("outer_outline")
    /\ << 1, 1 >> \in LayerPixels("border")
    /\ << local.border_size + 1, local.border_size + 1 >> \in LayerPixels("inner_outline")
    /\ << local.border_size + 2, local.border_size + 2 >> \in BoardAreaPixels

\* ------------------------------------------------------------------------
\* Errors and the output file (C11)
\* ------------------------------------------------------------------------

\* The messages of the TileboardErrors main can meet.
TileboardErrors ==
    { "Empty FEN position.", "Unable to load image", "Image width and height differ",
      "Image sizes do not match each other", "Unable to load font" }

\* C11: a run of main that ended in an error (a TileboardError for an empty
\* position, an image that cannot be loaded, images that are not square or
\* differ in size, a font that cannot be loaded) has not written the output
\* file and exits with a status other than 0; the file is written only by
\* the last statement of a run in which every statement before it returned,
\* and it is then the image that was drawn.
C11_NoOutputOnError ==
    /\ error \in TileboardErrors \cup { "" }
    /\ error # "" => (status # 0 /\ pc = "exit" /\ file = None)
    /\ status # 0 => (pc = "exit" /\ file = None)
    /\ file # None => /\ pc = "exit" /\ status = 0 /\ error = ""
                      /\ board # None /\ image # None /\ file = image

\* C11 happens: the images of the pieces were loaded and validated, then the
\* border font could not be loaded.
C11_Witness ==
    /\ pc = "exit" /\ error = "Unable to load font" /\ tileset # << >>
    /\ status = 1 /\ file = None

\* ------------------------------------------------------------------------
\* Tile sizes that are not positive (C12)
\* ------------------------------------------------------------------------

\* main run with --tileset-size 0 or negative (type = int takes them), on
\* boards without pieces ("01/10", "998"), where the option is the tile
\* size, and on a board with pieces ("kK/01"), where it is not.
SizePositions == { FenEmpty, FenHoles, FenWide26, FenSmall }

SizeTileSizes == { -200, -1, 0, 42 }

InitSizes == MainStart(Options(SizePositions, SizeTileSizes, [1..7 -> BOOLEAN]))

SpecSizes == InitSizes /\ [][Next]_vars

\* The board has no piece and the value of --tileset-size, which main then
\* takes as the tile size, is not positive.
TileSizeNotPositive ==
    /\ board # None
    /\ walk_board(board, TRUE, TRUE) = << >>
    /\ options.tileset_size <= 0

\* C12: a render whose tile size is not positive (--tileset-size 0 or
\* negative on a board without pieces) fails with an error once the tile
\* size is determined: no size is computed, no image is created, nothing is
\* drawn or written, and the exit status is not 0.
C12_InvalidSizeError ==
    (TileSizeNotPositive /\ pc \notin { "load_tileset", "tile_size" })
        => /\ pc = "exit" /\ error # "" /\ status # 0
           /\ local = Unbound /\ image = None /\ file = None

\* ------------------------------------------------------------------------
\* The tile size (C13)
\* ------------------------------------------------------------------------

\* main has loaded the tileset and run the statements that determine the
\* tile size.
TileSizeDetermined ==
    /\ pc \notin { "load_board", "load_tileset", "tile_size" }
    /\ error \notin { "Empty FEN position.", "Unable to load image" }

\* Some loaded image is not square, or two loaded images differ in size.
TilesNotSquareOrDiffer ==
    \/ \E i \in 1..Len(tileset) : tileset[i].width # tileset[i].height
    \/ \E i, j \in 1..Len(tileset) :
          \/ tileset[i].width # tileset[j].width
          \/ tileset[i].height # tileset[j].height

\* C13: determining the tile size fails with an error exactly when some
\* loaded image is not square or two loaded images differ in size, and the
\* render then ends without output.  Otherwise validate_tile_sizes returns
\* the side all images share (None, written 0, without images), main takes
\* it as the tile size of the canvas and of every cell drawn, and takes
\* --tileset-size in its place only when the board has no piece.
C13_TileSize ==
    TileSizeDetermined =>
        /\ (error \in { "Image width and height differ",
                         "Image sizes do not match each other" })
              <=> TilesNotSquareOrDiffer
        /\ TilesNotSquareOrDiffer =>
              /\ pc = "exit" /\ status = 1
              /\ local = Unbound /\ image = None /\ file = None
        /\ ~TilesNotSquareOrDiffer =>
              LET ts == local.tilesize
              IN  /\ validate_tile_sizes(tileset) =
                        [ raised |-> "",
                          size   |-> IF tileset = << >> THEN 0 ELSE tileset[1].width ]
                  /\ \A i \in 1..Len(tileset) :
                        tileset[i].width = ts /\ tileset[i].height = ts
                  /\ (tileset = << >>) <=> ~HasTile(TRUE, TRUE)
                  /\ (tileset = << >>) => ts = options.tileset_size
                  /\ image # None =>
                        /\ image.width  = (ts * board.width)  + (2 * BoardOffset)
                        /\ image.height = (ts * board.height) + (2 * BoardOffset)
                        /\ \A op \in Ops :
                              op.layer \in { "holes", "pattern" } =>
                                \E row \in Rows, col \in Cols : op.xy = CellBox(row, col)
                        /\ \A op \in Ops :
                              op.layer = "pieces" =>
                                \E row \in Rows, col \in Cols :
                                  /\ op.xy[1] = CellBox(row, col)[1]
                                  /\ op.xy[2] = CellBox(row, col)[2]
                                  /\ op.arg = Tile(row, col)

\* C13 happens: two square images of different sides were loaded and the
\* render ended with the error.
C13_Witness ==
    /\ pc = "exit" /\ error = "Image sizes do not match each other"
    /\ Len(tileset) = 2
    /\ tileset[1].width = tileset[1].height
    /\ tileset[2].width = tileset[2].height
    /\ tileset[1].width # tileset[2].width

\* ------------------------------------------------------------------------
\* Crosses and dots (C14)
\* ------------------------------------------------------------------------

\* main run with --crosses and --dots on the boards "kK/01" and "01/10"
\* (two columns, two rows): positions on the board ("a1", "b2"), off the
\* board ("c1") and malformed ("1a").
MarkerPositions == { FenEmpty, FenSmall, FenHoles }

MarkerTileSizes == { 42 }

MarkerFlags ==
    { f \in [1..7 -> BOOLEAN] : f[2] = f[1] /\ f[4] = f[1] /\ ~f[3] /\ f[6] = f[5] }

MarkerCrosses ==
    { << >>, << << "a", "1" >> >>, << << "b", "2" >>, << "a", "1" >> >>,
      << << "c", "1" >> >>, << << "a", "1" >>, << "1", "a" >> >> }

MarkerDots == { << >>, << << "b", "1" >> >>, << << "a", "3" >> >> }

Markers ==
    [ crosses : MarkerCrosses, crosses_disable : BOOLEAN,
      dots    : MarkerDots,    dots_disable    : BOOLEAN ]

InitMarkers ==
    MainStart(OptionsWith(MarkerPositions, MarkerTileSizes, MarkerFlags, Markers))

SpecMarkers == InitMarkers /\ [][Next]_vars

\* The positions given for a kind of marker, none when it is disabled.
MarkerList(kind) ==
    IF kind = "crosses"
    THEN (IF options.crosses_disable THEN << >> ELSE options.crosses)
    ELSE (IF options.dots_disable THEN << >> ELSE options.dots)

\* Draw call n of the file is a marker of that kind inside the cell (x, y),
\* made after every paste of a piece.
MarkerDrawn(kind, cell, n) ==
    /\ file.ops[n].layer = kind
    /\ file.ops[n].xy[1] >= CellBox(cell[2], cell[1])[1]
    /\ file.ops[n].xy[1] <= CellBox(cell[2], cell[1])[3]
    /\ file.ops[n].xy[2] >= CellBox(cell[2], cell[1])[2]
    /\ file.ops[n].xy[2] <= CellBox(cell[2], cell[1])[4]
    /\ \A k \in 1..Len(file.ops) : file.ops[k].layer = "pieces" => k < n

\* C14: when main has ended, for the crosses and for the dots that are not
\* disabled: if a position given is malformed or off the board, the render
\* failed and no file was written; otherwise a file that was written has a
\* marker on the cell of every position given, drawn after the pieces.
C14_MarkersDrawn ==
    (pc = "exit" /\ board # None) =>
        \A kind \in { "crosses", "dots" } :
            LET r == parse_positions(MarkerList(kind), board)
            IN  /\ r.raised # "" => (file = None /\ status # 0)
                /\ (r.raised = "" /\ file # None) =>
                      \A k \in 1..Len(r.cells) :
                          \E n \in 1..Len(file.ops) : MarkerDrawn(kind, r.cells[k], n)

=============================================================================
